---- MODULE Spec2Model ----
(***************************************************************************)
(* Model of raven/ai/handler.py: stream_response and its EventHandler.     *)
(*                                                                         *)
(* A call of stream_response opens one provider stream for a run and       *)
(* consumes its events with an EventHandler.  A requires-action event      *)
(* makes the handler process the batch of tool calls and submit the        *)
(* outputs, which opens a nested stream consumed by a fresh EventHandler;  *)
(* the submitting handler is blocked until the nested stream is exhausted. *)
(* The stack of active EventHandlers is the variable `stack`.              *)
(***************************************************************************)
EXTENDS Integers, Sequences, FiniteSets, TLC

(* ------------------------------ bounds -------------------------------- *)

\* longest batch of tool calls carried by one requires-action event
MaxBatch == 2
\* deepest nesting of resumption streams below the top-level stream
MaxDepth == 2
\* number of events the provider delivers over all streams of one call
MaxEvents == 4

(* ------------------------------ inputs -------------------------------- *)

\* Identifiers are strings of characters, modelled as sequences, so that the
\* concatenation run_id + "_" + tool.id is the concatenation of sequences.

\* the runs the provider may create for the first stream: a run id and the
\* id of the thread the run belongs to
Runs ==
    { [id |-> <<"r", "1">>, thread_id |-> <<"t", "1">>],
      [id |-> <<"r", "2">>, thread_id |-> <<"t", "2">>] }

CallIdSeq == << <<"c", "1">>, <<"c", "2">>, <<"c", "3">> >>

ChannelId == "general"

BotName == "raven-bot"

Texts == { "Done!", "Hi" }

\* function names a tool call may carry; "ghost_fn" is in no registry
FunctionNames ==
    { "custom_fn", "custom_json_fn", "get_doc", "get_docs", "del_doc",
      "del_docs", "ghost_fn" }

\* raw argument payloads (tool.function.arguments)
Payloads ==
    { "{\"document_id\": \"DOC-1\"}", "{\"document_ids\": [\"DOC-1\"]}",
      "[1]", "{bad" }

\* tool types of a tool-call step
ToolTypes == { "code_interpreter", "file_search", "function" }

\* what a Custom Function does when invoked: whether it changes persisted
\* state and whether it raises
Behaviours == [writes : BOOLEAN, raises : BOOLEAN]

NoRun == [id |-> <<>>, thread_id |-> <<>>]

\* The model has two scopes.  "dispatch": the first stream pauses with requests
\* of every function kind and payload, and resumption streams do not pause
\* again.  "session": every stream may pause, down to MaxDepth resumption
\* streams, with requests for a Custom Function or an unregistered name.
ScopeNames(sc) ==
    IF sc = "dispatch" THEN FunctionNames ELSE { "custom_fn", "ghost_fn" }

ScopePayloads(sc) ==
    IF sc = "dispatch" THEN Payloads ELSE { "{\"document_id\": \"DOC-1\"}", "{bad" }

ScopeDepth(sc) == IF sc = "dispatch" THEN 1 ELSE MaxDepth

\* the dispatch scope delivers two events fewer: it has one pause to reach
ScopeEvents(sc) == IF sc = "dispatch" THEN MaxEvents - 2 ELSE MaxEvents

VARIABLES
    scope,        \* the scope of the model, fixed by the initial state
    allow_write,  \* bot.allow_bot_to_write_documents
    stack,        \* the active EventHandlers, outermost first
    db,           \* persisted rows of the current transaction
    savepoints,   \* savepoints of the current transaction, oldest first
    event,        \* the event delivered by the last step, or NoEvent
    trace,        \* effects of the last step, in order
    call,         \* the tool call processed by the last step, or NoCall
    resumption,   \* the resumption call made by the last step, or NoResumption
    events,       \* number of events delivered so far
    status,       \* of the stream_response call: "running", "done", "failed"
    cleared       \* on_text_done has published the clear signal

vars ==
    <<scope, allow_write, stack, db, savepoints, event, trace, call, resumption,
      events, status, cleared>>

(* ----------------------- effects of a step ---------------------------- *)

\* frappe.publish_realtime("ai_event", {text, channel_id, bot}, ...)
publish_event(text) ==
    [kind |-> "ai_event", text |-> text, channel_id |-> ChannelId,
     bot |-> BotName, name |-> <<>>]

\* frappe.publish_realtime("ai_event_clear", {channel_id}, ...)
publish_clear ==
    [kind |-> "ai_event_clear", text |-> <<>>, channel_id |-> ChannelId,
     bot |-> "", name |-> <<>>]

\* bot.send_message(channel_id=channel_id, text=text.value)
send_message(text) ==
    [kind |-> "message", text |-> <<text>>, channel_id |-> ChannelId,
     bot |-> BotName, name |-> <<>>]

\* an effect on the persistence layer or a function invocation
Effect(kind, name) ==
    [kind |-> kind, text |-> <<>>, channel_id |-> "", bot |-> "", name |-> name]

(* ------------------------- function registry -------------------------- *)

\* frappe.get_cached_doc("Raven AI Function", name); found = FALSE stands for
\* frappe.DoesNotExistError
get_cached_doc(name) ==
    CASE name = "custom_fn" ->
           [found |-> TRUE, type |-> "Custom Function",
            pass_parameters_as_json |-> FALSE, reference_doctype |-> ""]
      [] name = "custom_json_fn" ->
           [found |-> TRUE, type |-> "Custom Function",
            pass_parameters_as_json |-> TRUE, reference_doctype |-> ""]
      [] name = "get_doc" ->
           [found |-> TRUE, type |-> "Get Document",
            pass_parameters_as_json |-> FALSE, reference_doctype |-> "Task"]
      [] name = "get_docs" ->
           [found |-> TRUE, type |-> "Get Multiple Documents",
            pass_parameters_as_json |-> FALSE, reference_doctype |-> "Task"]
      [] name = "del_doc" ->
           [found |-> TRUE, type |-> "Delete Document",
            pass_parameters_as_json |-> FALSE, reference_doctype |-> "Task"]
      [] name = "del_docs" ->
           [found |-> TRUE, type |-> "Delete Multiple Documents",
            pass_parameters_as_json |-> FALSE, reference_doctype |-> "Task"]
      [] OTHER ->
           [found |-> FALSE, type |-> "", pass_parameters_as_json |-> FALSE,
            reference_doctype |-> ""]

(* ------------------------------ json ---------------------------------- *)

\* json.loads(tool.function.arguments): ok = FALSE stands for the
\* JSONDecodeError; kind tells a mapping from another JSON value; keys are the
\* keys of the mapping; document_id is args.get("document_id")
json_loads(payload) ==
    CASE payload = "{\"document_id\": \"DOC-1\"}" ->
           [ok |-> TRUE, kind |-> "map", keys |-> {"document_id"},
            document_id |-> "DOC-1"]
      [] payload = "{\"document_ids\": [\"DOC-1\"]}" ->
           [ok |-> TRUE, kind |-> "map", keys |-> {"document_ids"},
            document_id |-> "None"]
      [] payload = "[1]" ->
           [ok |-> TRUE, kind |-> "list", keys |-> {}, document_id |-> ""]
      [] OTHER ->
           [ok |-> FALSE, kind |-> "", keys |-> {}, document_id |-> ""]

\* json.dumps(function_output, default=str)
json_dumps(value) == <<"json", value>>

ErrorMessage == "There was an error in the function call"

\* json.dumps({"message": ..., "error": str(e)}, default=str)
json_dumps_error(e) == <<"json", "message", ErrorMessage, "error", e>>

FunctionNotFound == <<"Function not found">>

(* -------------------------- persistence ------------------------------- *)

Doc1 == <<"Task", "DOC-1">>

\* the row a Custom Function writes when called for tool call `id`
Row(id) == <<"row">> \o id

\* run_id + "_" + tool.id
savepoint_name(run_id, tool_id) == run_id \o <<"_">> \o tool_id

SelectIdx(sp, name) == { k \in 1..Len(sp) : sp[k].name = name }

MaxOf(S) == CHOOSE m \in S : \A k \in S : k <= m

\* frappe.db.savepoint(name): SAVEPOINT name; an older savepoint of the same
\* name is replaced
\* (`reverted` records that the rows were taken back to the savepoint)
db_savepoint(sp, d, name) ==
    LET kept == SelectSeq(sp, LAMBDA s : s.name # name)
    IN  Append(kept, [name |-> name, snap |-> d, reverted |-> FALSE])

\* frappe.db.rollback(save_point=name): ROLLBACK TO SAVEPOINT name; the rows
\* go back to the snapshot, later savepoints are dropped, the savepoint stays
db_rollback_rows(sp, d, name) ==
    IF SelectIdx(sp, name) = {} THEN d ELSE sp[MaxOf(SelectIdx(sp, name))].snap

db_rollback_savepoints(sp, name) ==
    IF SelectIdx(sp, name) = {} THEN sp
    ELSE LET m == MaxOf(SelectIdx(sp, name))
         IN  [SubSeq(sp, 1, m) EXCEPT ![m] = [@ EXCEPT !.reverted = TRUE]]

(* ------------------- processing of one tool call ---------------------- *)

\* the state of one iteration of the loop: the persisted rows, the savepoints,
\* the effects so far, the exception raised ("" for none) and function_output
NewExec(d, sp) ==
    [db |-> d, sp |-> sp, trace |-> <<>>, exc |-> "", value |-> "{}",
     invoked |-> FALSE]

Raise(X, e) == [X EXCEPT !.exc = e]

Emit(X, effect) == [X EXCEPT !.trace = Append(@, effect)]

\* function_name(args) or function_name(**args): expanding a value that is no
\* mapping raises before the function runs; the function changes the
\* persisted rows or not, and returns or raises, as beh tells
invoke_function(X, function, args, beh, tool_id) ==
    IF ~function.pass_parameters_as_json /\ args.kind # "map"
    THEN Raise(X, "TypeError")
    ELSE LET Y == [Emit(X, Effect("invoke", tool_id)) EXCEPT
                     !.db = IF beh.writes THEN @ \cup {Row(tool_id)} ELSE @,
                     !.invoked = TRUE]
         IN  IF beh.raises THEN Raise(Y, "FunctionError")
             ELSE [Y EXCEPT !.value = "ok"]

\* a variant that takes the savepoint and never rolls back to it
invoke_in_savepoint_without_rollback(X, function, args, beh, run_id, tool_id) ==
    LET name == savepoint_name(run_id, tool_id)
        X1 == [Emit(X, Effect("savepoint", name)) EXCEPT
                 !.sp = db_savepoint(@, X.db, name)]
    IN  invoke_function(X1, function, args, beh, tool_id)

\* a variant of the write-permitted branch that reverts what the function wrote
invoke_directly_reverting(X, function, args, beh, run_id, tool_id) ==
    LET name == savepoint_name(run_id, tool_id)
        X1 == [Emit(X, Effect("savepoint", name)) EXCEPT
                 !.sp = db_savepoint(@, X.db, name)]
        X2 == invoke_function(X1, function, args, beh, tool_id)
    IN  IF X2.exc # "" THEN X2
        ELSE [Emit(X2, Effect("rollback", name)) EXCEPT
                !.db = db_rollback_rows(X2.sp, @, name),
                !.sp = db_rollback_savepoints(@, name)]

\* the write-permitted branch: the function is called directly
invoke_directly(X, function, args, beh, run_id, tool_id) ==
    invoke_function(X, function, args, beh, tool_id)

\* the branch taken when writes are not permitted: savepoint, call, rollback;
\* a call that raises leaves the branch before the rollback
invoke_in_savepoint(X, function, args, beh, run_id, tool_id) ==
    LET name == savepoint_name(run_id, tool_id)
        X1 == [Emit(X, Effect("savepoint", name)) EXCEPT
                 !.sp = db_savepoint(@, X.db, name)]
        X2 == invoke_function(X1, function, args, beh, tool_id)
    IN  IF X2.exc # "" THEN X2
        ELSE [Emit(X2, Effect("rollback", name)) EXCEPT
                !.db = db_rollback_rows(X2.sp, @, name),
                !.sp = db_rollback_savepoints(@, name)]

\* if function.type == "Custom Function"
custom_function(X, allow, function, args, beh, run_id, tool_id) ==
    IF allow
    THEN invoke_directly(X, function, args, beh, run_id, tool_id)
    ELSE invoke_in_savepoint(X, function, args, beh, run_id, tool_id)

\* raven.ai.functions.get_document(doctype, **args)
get_document(X, doctype, args, beh) ==
    IF args.kind # "map" \/ args.keys # {"document_id"} THEN Raise(X, "TypeError")
    ELSE LET Y == [Emit(X, Effect("invoke", <<"get_document">>)) EXCEPT
                     !.invoked = TRUE]
         IN  IF beh.raises \/ <<doctype, args.document_id>> \notin Y.db
             THEN Raise(Y, "DoesNotExistError")
             ELSE [Y EXCEPT !.value = args.document_id]

\* raven.ai.functions.get_documents(doctype, **args)
get_documents(X, doctype, args, beh) ==
    IF args.kind # "map" \/ args.keys # {"document_ids"} THEN Raise(X, "TypeError")
    ELSE LET Y == [Emit(X, Effect("invoke", <<"get_documents">>)) EXCEPT
                     !.invoked = TRUE]
         IN  IF beh.raises \/ Doc1 \notin Y.db
             THEN Raise(Y, "DoesNotExistError")
             ELSE [Y EXCEPT !.value = "[DOC-1]"]

\* raven.ai.functions.delete_document(doctype, **args)
delete_document(X, doctype, args, beh) ==
    IF args.kind # "map" \/ args.keys # {"document_id"} THEN Raise(X, "TypeError")
    ELSE LET Y == [Emit(X, Effect("invoke", <<"delete_document">>)) EXCEPT
                     !.invoked = TRUE]
         IN  IF beh.raises \/ <<doctype, args.document_id>> \notin Y.db
             THEN Raise(Y, "DoesNotExistError")
             ELSE [Y EXCEPT !.db = @ \ {<<doctype, args.document_id>>},
                            !.value = "deleted"]

\* raven.ai.functions.delete_documents(doctype, **args)
delete_documents(X, doctype, args, beh) ==
    IF args.kind # "map" \/ args.keys # {"document_ids"} THEN Raise(X, "TypeError")
    ELSE LET Y == [Emit(X, Effect("invoke", <<"delete_documents">>)) EXCEPT
                     !.invoked = TRUE]
         IN  IF beh.raises \/ Doc1 \notin Y.db
             THEN Raise(Y, "DoesNotExistError")
             ELSE [Y EXCEPT !.db = @ \ {Doc1}, !.value = "deleted"]

\* "Fetching {} {}...".format(function.reference_doctype, args.get("document_id"))
fetching_text(doctype, document_id) ==
    <<"Fetching ", doctype, " ", document_id, "...">>

deleting_text(doctype, document_id) ==
    <<"Deleting ", doctype, " ", document_id, "...">>

\* a variant that publishes the notification of a document operation after
\* the operation, when it has returned
dispatch_publishing_after(X, allow, function, args, beh, run_id, tool_id) ==
    LET after(Y, text) == IF Y.exc # "" THEN Y ELSE Emit(Y, publish_event(text))
    IN  CASE function.type = "Custom Function" ->
               custom_function(X, allow, function, args, beh, run_id, tool_id)
          [] function.type = "Get Document" ->
               IF args.kind # "map" THEN Raise(X, "AttributeError")
               ELSE after(get_document(X, function.reference_doctype, args, beh),
                          fetching_text(function.reference_doctype, args.document_id))
          [] function.type = "Get Multiple Documents" ->
               after(get_documents(X, function.reference_doctype, args, beh),
                     <<"Fetching multiple ", function.reference_doctype, "s...">>)
          [] function.type = "Delete Document" ->
               IF args.kind # "map" THEN Raise(X, "AttributeError")
               ELSE after(delete_document(X, function.reference_doctype, args, beh),
                          deleting_text(function.reference_doctype, args.document_id))
          [] function.type = "Delete Multiple Documents" ->
               after(delete_documents(X, function.reference_doctype, args, beh),
                     <<"Deleting multiple ", function.reference_doctype, "s...">>)
          [] OTHER -> X

\* a variant that runs the two delete operations like a Custom Function,
\* between a savepoint and the rollback to it when writes are not permitted
dispatch_reverting_deletes(X, allow, function, args, beh, run_id, tool_id) ==
    LET name == savepoint_name(run_id, tool_id)
        guarded(X1, Y) ==
            IF allow \/ Y.exc # "" THEN Y
            ELSE [Emit(Y, Effect("rollback", name)) EXCEPT
                    !.db = db_rollback_rows(X1.sp, @, name),
                    !.sp = db_rollback_savepoints(X1.sp, name)]
        opened(X0) ==
            IF allow THEN X0
            ELSE [Emit(X0, Effect("savepoint", name)) EXCEPT
                    !.sp = db_savepoint(@, X0.db, name)]
    IN  CASE function.type = "Custom Function" ->
               custom_function(X, allow, function, args, beh, run_id, tool_id)
          [] function.type = "Get Document" ->
               IF args.kind # "map" THEN Raise(X, "AttributeError")
               ELSE get_document(
                      Emit(X, publish_event(
                           fetching_text(function.reference_doctype, args.document_id))),
                      function.reference_doctype, args, beh)
          [] function.type = "Get Multiple Documents" ->
               get_documents(
                 Emit(X, publish_event(
                      <<"Fetching multiple ", function.reference_doctype, "s...">>)),
                 function.reference_doctype, args, beh)
          [] function.type = "Delete Document" ->
               IF args.kind # "map" THEN Raise(X, "AttributeError")
               ELSE LET X1 == opened(Emit(X, publish_event(
                                deleting_text(function.reference_doctype,
                                              args.document_id))))
                    IN  guarded(X1, delete_document(X1, function.reference_doctype,
                                                    args, beh))
          [] function.type = "Delete Multiple Documents" ->
               LET X1 == opened(Emit(X, publish_event(
                             <<"Deleting multiple ", function.reference_doctype,
                               "s...">>)))
               IN  guarded(X1, delete_documents(X1, function.reference_doctype,
                                                args, beh))
          [] OTHER -> X

\* the body of the try: the dispatch on function.type, after json.loads
dispatch(X, allow, function, args, beh, run_id, tool_id) ==
    CASE function.type = "Custom Function" ->
           custom_function(X, allow, function, args, beh, run_id, tool_id)
      [] function.type = "Get Document" ->
           IF args.kind # "map" THEN Raise(X, "AttributeError")
           ELSE get_document(
                  Emit(X, publish_event(
                       fetching_text(function.reference_doctype, args.document_id))),
                  function.reference_doctype, args, beh)
      [] function.type = "Get Multiple Documents" ->
           get_documents(
             Emit(X, publish_event(
                  <<"Fetching multiple ", function.reference_doctype, "s...">>)),
             function.reference_doctype, args, beh)
      [] function.type = "Delete Document" ->
           IF args.kind # "map" THEN Raise(X, "AttributeError")
           ELSE delete_document(
                  Emit(X, publish_event(
                       deleting_text(function.reference_doctype, args.document_id))),
                  function.reference_doctype, args, beh)
      [] function.type = "Delete Multiple Documents" ->
           delete_documents(
             Emit(X, publish_event(
                  <<"Deleting multiple ", function.reference_doctype, "s...">>)),
             function.reference_doctype, args, beh)
      [] OTHER -> X

\* a variant whose except clause serializes function_output instead of the
\* error payload
tool_output_without_error(tool_id, X) ==
    [tool_call_id |-> tool_id, output |-> json_dumps(X.value)]

\* the output appended after the try: the serialized result, or the error
\* payload built by the except clause
tool_output(tool_id, X) ==
    IF X.exc = ""
    THEN [tool_call_id |-> tool_id, output |-> json_dumps(X.value)]
    ELSE [tool_call_id |-> tool_id, output |-> json_dumps_error(X.exc)]

\* a variant whose except clause swallows the exception without an output
appended_outputs_swallowing(tool_id, X) ==
    IF X.exc = "" THEN <<tool_output(tool_id, X)>> ELSE <<>>

\* a variant whose except clause appends after the try body already appended
appended_outputs_duplicating(tool_id, X) ==
    IF X.exc = "" THEN <<tool_output(tool_id, X)>>
    ELSE <<[tool_call_id |-> tool_id, output |-> json_dumps(X.value)],
           tool_output(tool_id, X)>>

\* the outputs one iteration appends for a resolved function: exactly one, by
\* the statement after the try or by the except clause
appended_outputs(tool_id, X) == <<tool_output(tool_id, X)>>

not_found_output(tool_id) ==
    [tool_call_id |-> tool_id, output |-> FunctionNotFound]

\* a variant that goes on with the next tool call after an unknown function
not_found_continues == FALSE

\* the except clause of the function lookup ends with `return`: the handler
\* leaves handle_requires_action
not_found_returns == TRUE

\* one iteration of the loop over the tool calls: the rows, savepoints and
\* effects after it, the outputs it appends, the exception it caught, and
\* whether it returned from handle_requires_action
process_tool(allow, d, sp, run_id, tool, beh) ==
    LET function == get_cached_doc(tool.name)
        args == json_loads(tool.arguments)
        X0 == NewExec(d, sp)
        X == IF ~args.ok THEN Raise(X0, "JSONDecodeError")
             ELSE dispatch(X0, allow, function, args, beh, run_id, tool.id)
    IN  IF ~function.found
        THEN [db |-> d, sp |-> sp, trace |-> <<>>,
              appended |-> <<not_found_output(tool.id)>>,
              exc |-> "FunctionNotFound", invoked |-> FALSE,
              returned |-> not_found_returns]
        ELSE [db |-> X.db, sp |-> X.sp, trace |-> X.trace,
              appended |-> appended_outputs(tool.id, X),
              exc |-> X.exc, invoked |-> X.invoked, returned |-> FALSE]

(* --------------------------- event handlers --------------------------- *)

\* a variant that publishes the thinking notification for every other tool
run_step_notifications_generic(step) ==
    IF step.type = "tool_calls"
    THEN LET notes[k \in 0..Len(step.tool_calls)] ==
                 IF k = 0 THEN <<>>
                 ELSE LET tool == step.tool_calls[k]
                      IN  notes[k - 1]
                          \o (IF tool = "code_interpreter"
                              THEN <<publish_event(<<"Running code...">>)>>
                              ELSE IF tool = "file_search"
                              THEN <<publish_event(<<"Searching file contents...">>)>>
                              ELSE <<publish_event(<<"Raven AI is thinking...">>)>>)
         IN  notes[Len(step.tool_calls)]
    ELSE <<publish_event(<<"Raven AI is thinking...">>)>>

\* on_run_step_done: the notifications published for a completed step
run_step_notifications(step) ==
    IF step.type = "tool_calls"
    THEN LET notes[k \in 0..Len(step.tool_calls)] ==
                 IF k = 0 THEN <<>>
                 ELSE LET tool == step.tool_calls[k]
                      IN  notes[k - 1]
                          \o (IF tool = "code_interpreter"
                              THEN <<publish_event(<<"Running code...">>)>>
                              ELSE <<>>)
                          \o (IF tool = "file_search"
                              THEN <<publish_event(<<"Searching file contents...">>)>>
                              ELSE <<>>)
         IN  notes[Len(step.tool_calls)]
    ELSE <<publish_event(<<"Raven AI is thinking...">>)>>

\* a variant that publishes the clear signal before the message is sent
text_done_effects_clear_first(text) == <<publish_clear, send_message(text)>>

\* a variant that publishes a notification after the clear signal
text_done_effects_then_thinking(text) ==
    <<send_message(text), publish_clear,
      publish_event(<<"Raven AI is thinking...">>)>>

\* on_text_done: the message to the channel, then the clear signal
text_done_effects(text) == <<send_message(text), publish_clear>>

\* a variant that passes the two ids in each other's place
resumption_run_swapped(frame) ==
    [id |-> frame.current_run.thread_id, thread_id |-> frame.current_run.id]

\* the run a resumption call names: self.current_run
resumption_run(frame) == frame.current_run

(* ------------------------------ state --------------------------------- *)

NoCall ==
    [id |-> <<>>, type |-> "", args |-> "", exc |-> "", invoked |-> FALSE,
     wrote |-> FALSE, db_before |-> {}, sp_before |-> <<>>, output |-> <<>>]

NoResumption ==
    [made |-> FALSE, thread_id |-> <<>>, run_id |-> <<>>, tool_outputs |-> <<>>,
     tool_calls |-> <<>>, excs |-> <<>>, db_before |-> {}]

NoStep == [type |-> "", tool_calls |-> <<>>]

NoEvent == [kind |-> "", text |-> "", step |-> NoStep]

\* an EventHandler consuming the stream of `run`
NewHandler(run) ==
    [run |-> run,             \* the run the provider streams (event.data)
     current_run |-> NoRun,   \* self.current_run
     phase |-> "stream",      \* "stream", "batch" (in the loop) or "blocked"
     event_run |-> NoRun,     \* the run carried by the requires-action event
     run_id |-> <<>>,         \* the run_id passed to handle_requires_action
     tool_calls |-> <<>>,     \* the call ids of the batch, in request order
     db_before |-> {},        \* the persisted rows when the batch began
     i |-> 0,                 \* the loop's position in the batch
     tool_outputs |-> <<>>,   \* the local tool_outputs
     excs |-> <<>>,           \* the exception each processed call ended with
     resumed |-> 0,           \* resumption calls made by the handler call
     returned |-> FALSE]      \* the handler of the event has returned

Depth == Len(stack)

Top == stack[Depth]

SetTop(frame) == [stack EXCEPT ![Depth] = frame]

\* the batches of call ids: call ids are unique within a batch
\* (ids are opaque: a batch lists them in the order of CallIdSeq)
Increasing(s) == \A k \in 1..(Len(s) - 1) : s[k] < s[k + 1]

Injective(s) == \A j, k \in 1..Len(s) : j # k => s[j] # s[k]

BatchIds ==
    { [k \in 1..Len(s) |-> CallIdSeq[s[k]]] :
        s \in { t \in UNION { [1..n -> 1..Len(CallIdSeq)] : n \in 1..MaxBatch } :
                  Injective(t) /\ Increasing(t) } }

\* the steps a step-completed event may carry
Steps ==
    { [type |-> "message_creation", tool_calls |-> <<>>] }
    \cup { [type |-> "tool_calls", tool_calls |-> t] :
             t \in UNION { [1..n -> ToolTypes] : n \in 1..MaxBatch } }

InitIn(sc) ==
    /\ scope = sc
    /\ allow_write \in BOOLEAN
    /\ \E run \in Runs : stack = <<NewHandler(run)>>
    /\ db = {Doc1}
    /\ savepoints = <<>>
    /\ event = NoEvent
    /\ trace = <<>>
    /\ call = NoCall
    /\ resumption = NoResumption
    /\ events = 0
    /\ status = "running"
    /\ cleared = FALSE

\* the top handler is consuming its stream and the provider delivers an event.
\* A stream ends with the event that reports the run as requiring action: once
\* the handler of that event has returned, the stream delivers nothing more.
Delivering ==
    /\ status = "running"
    /\ Top.phase = "stream"
    /\ ~Top.returned
    /\ events < ScopeEvents(scope)

\* a run status event (thread.run.created, queued, in_progress): on_event does
\* nothing, the stream helper records event.data as current_run
OnRunStatus ==
    /\ Delivering
    /\ stack' = SetTop([Top EXCEPT !.current_run = Top.run])
    /\ event' = [NoEvent EXCEPT !.kind = "run_status"]
    /\ trace' = <<>>
    /\ call' = NoCall
    /\ resumption' = NoResumption
    /\ events' = events + 1
    /\ UNCHANGED <<scope, allow_write, cleared, db, savepoints, status>>

\* thread.run.step.completed
OnRunStepDone ==
    /\ Delivering
    /\ \E step \in Steps :
         /\ event' = [NoEvent EXCEPT !.kind = "step_done", !.step = step]
         /\ trace' = run_step_notifications(step)
    /\ stack' = stack
    /\ call' = NoCall
    /\ resumption' = NoResumption
    /\ events' = events + 1
    /\ UNCHANGED <<scope, allow_write, cleared, db, savepoints, status>>

\* thread.message.completed with a text content
OnTextDone ==
    /\ Delivering
    /\ \E text \in Texts :
         /\ event' = [NoEvent EXCEPT !.kind = "text_done", !.text = text]
         /\ trace' = text_done_effects(text)
    /\ stack' = stack
    /\ call' = NoCall
    /\ resumption' = NoResumption
    /\ events' = events + 1
    /\ cleared' = TRUE
    /\ UNCHANGED <<scope, allow_write, db, savepoints, status>>

\* thread.run.requires_action: on_event calls handle_requires_action with
\* event.data and event.data.id, and the loop over the tool calls begins.  The
\* provider reports a run as requiring action only after it has reported it
\* queued or in progress on the same stream.
OnRequiresAction ==
    /\ Delivering
    /\ Top.current_run # NoRun
    /\ Depth <= ScopeDepth(scope)
    /\ \E ids \in BatchIds :
         stack' = SetTop([Top EXCEPT
                            !.phase = "batch", !.event_run = Top.run,
                            !.run_id = Top.run.id, !.tool_calls = ids, !.i = 1,
                            !.db_before = db])
    /\ event' = [NoEvent EXCEPT !.kind = "requires_action"]
    /\ trace' = <<>>
    /\ call' = NoCall
    /\ resumption' = NoResumption
    /\ events' = events + 1
    /\ UNCHANGED <<scope, allow_write, cleared, db, savepoints, status>>

\* one iteration of the loop of handle_requires_action.  The function name and
\* the argument payload of the request are read here, and what the called
\* function does is decided here.
ProcessToolCall ==
    /\ status = "running"
    /\ Top.phase = "batch"
    /\ Top.i <= Len(Top.tool_calls)
    /\ \E name \in ScopeNames(scope), arguments \in ScopePayloads(scope),
          beh \in Behaviours :
         LET tool == [id |-> Top.tool_calls[Top.i], name |-> name,
                      arguments |-> arguments]
             R == process_tool(allow_write, db, savepoints, Top.run_id, tool, beh)
         IN  /\ db' = R.db
             /\ savepoints' = R.sp
             /\ trace' = R.trace
             /\ call' = [id |-> tool.id, type |-> get_cached_doc(name).type,
                         args |-> json_loads(arguments).kind,
                         exc |-> R.exc, invoked |-> R.invoked,
                         wrote |-> R.invoked /\ beh.writes,
                         db_before |-> db, sp_before |-> savepoints,
                         output |-> IF R.appended = <<>> THEN <<>>
                                    ELSE R.appended[Len(R.appended)].output]
             /\ stack' = SetTop([Top EXCEPT
                                   !.tool_outputs = @ \o R.appended,
                                   !.excs = Append(@, R.exc),
                                   !.i = @ + 1,
                                   !.phase = IF R.returned THEN "stream" ELSE @,
                                   !.returned = R.returned])
    /\ event' = NoEvent
    /\ resumption' = NoResumption
    /\ UNCHANGED <<scope, allow_write, cleared, events, status>>

\* a variant whose submit_tool_outputs returns without consuming the stream
after_submit_returning(frame) ==
    [frame EXCEPT !.phase = "stream", !.returned = TRUE, !.tool_calls = <<>>,
                  !.tool_outputs = <<>>, !.excs = <<>>, !.resumed = @ + 1,
                  !.db_before = {}]

\* the handler that made the resumption call: it stays inside the with block
\* of submit_tool_outputs, iterating the resumption stream to its end
after_submit(frame) ==
    [frame EXCEPT !.phase = "blocked", !.tool_calls = <<>>,
                  !.tool_outputs = <<>>, !.excs = <<>>, !.resumed = @ + 1,
                  !.db_before = {}]

\* after the loop: submit_tool_outputs opens the resumption stream with a new
\* EventHandler, publishes the thinking notification and blocks on the stream
SubmitToolOutputs ==
    /\ status = "running"
    /\ Top.phase = "batch"
    /\ Top.i > Len(Top.tool_calls)
    /\ LET target == resumption_run(Top)
       IN  /\ resumption' = [made |-> TRUE, thread_id |-> target.thread_id,
                             run_id |-> target.id,
                             tool_outputs |-> Top.tool_outputs,
                             tool_calls |-> Top.tool_calls,
                             excs |-> Top.excs,
                             db_before |-> Top.db_before]
           /\ stack' = Append(SetTop(after_submit(Top)),
                              NewHandler([id |-> target.id,
                                          thread_id |-> target.thread_id]))
    /\ event' = NoEvent
    /\ trace' = <<publish_event(<<"Raven AI is thinking...">>)>>
    /\ call' = NoCall
    /\ UNCHANGED <<scope, allow_write, cleared, db, savepoints, events, status>>

\* the stream of the top handler is exhausted: a resumption stream gives the
\* control back to the blocked handler, whose handle_requires_action returns;
\* the first stream ends stream_response
StreamDone ==
    /\ status = "running"
    /\ Top.phase = "stream"
    /\ IF Depth = 1
       THEN /\ stack' = <<>>
            /\ status' = "done"
       ELSE /\ stack' = [SubSeq(stack, 1, Depth - 1) EXCEPT
                           ![Depth - 1] = [@ EXCEPT !.phase = "stream",
                                                    !.returned = TRUE]]
            /\ UNCHANGED status
    /\ event' = NoEvent
    /\ trace' = <<>>
    /\ call' = NoCall
    /\ resumption' = NoResumption
    /\ UNCHANGED <<scope, allow_write, cleared, db, savepoints, events>>

\* a variant in which the handler blocked on the stream catches the exception
\* and goes on as if the stream had ended
unwind_caught_by_parent(stk) ==
    IF Len(stk) = 1
    THEN [stack |-> <<[stk[1] EXCEPT !.phase = "failed"]>>, status |-> "failed"]
    ELSE [stack |-> [SubSeq(stk, 1, Len(stk) - 1) EXCEPT
                       ![Len(stk) - 1] = [@ EXCEPT !.phase = "stream",
                                                   !.returned = TRUE]],
          status |-> "running"]

\* an exception raised by the transport is caught nowhere: not around
\* submit_tool_outputs, not in on_event, not around until_done. It leaves
\* every handler on the way up and then stream_response
unwind(stk) ==
    [stack |-> [k \in 1..Len(stk) |-> [stk[k] EXCEPT !.phase = "failed"]],
     status |-> "failed"]

\* the stream the top handler consumes raises (until_done for the first
\* stream, the iteration of text_deltas for a resumption stream)
StreamFails ==
    /\ status = "running"
    /\ Top.phase = "stream"
    /\ stack' = unwind(stack).stack
    /\ status' = unwind(stack).status
    /\ event' = [NoEvent EXCEPT !.kind = "stream_error"]
    /\ trace' = <<>>
    /\ call' = NoCall
    /\ resumption' = NoResumption
    /\ UNCHANGED <<scope, allow_write, cleared, db, savepoints, events>>

\* after the loop, the call that submits the outputs raises: no resumption
\* stream is opened
SubmitFails ==
    /\ status = "running"
    /\ Top.phase = "batch"
    /\ Top.i > Len(Top.tool_calls)
    /\ stack' = unwind(stack).stack
    /\ status' = unwind(stack).status
    /\ event' = [NoEvent EXCEPT !.kind = "submit_error"]
    /\ trace' = <<>>
    /\ call' = NoCall
    /\ resumption' = NoResumption
    /\ UNCHANGED <<scope, allow_write, cleared, db, savepoints, events>>

Next ==
    \/ OnRunStatus
    \/ OnRunStepDone
    \/ OnTextDone
    \/ OnRequiresAction
    \/ ProcessToolCall
    \/ SubmitToolOutputs
    \/ StreamDone
    \/ StreamFails
    \/ SubmitFails

Init == InitIn("dispatch")

Spec == Init /\ [][Next]_vars

InitSession == InitIn("session")

SpecSession == InitSession /\ [][Next]_vars

(* ---------------------- names of the savepoints ----------------------- *)

\* run ids and call ids are strings chosen by the provider: the ids drawn here
\* include ids that contain the separator
NameRunIds == { <<"r", "1">>, <<"r", "1", "_", "c">>, <<"r", "2">> }

NameCallIds == { <<"c", "1">>, <<"c", "_", "c", "1">>, <<"c", "2">> }

\* two handlers of different runs, with writes not permitted, each about to
\* process one call of a Custom Function
InitNames ==
    /\ scope = "names"
    /\ allow_write = FALSE
    /\ \E r1, r2 \in NameRunIds, c1, c2 \in NameCallIds :
         /\ r1 # r2
         /\ stack =
              << [NewHandler([id |-> r1, thread_id |-> <<"t", "1">>]) EXCEPT
                    !.phase = "batch", !.run_id = r1, !.tool_calls = <<c1>>,
                    !.i = 1],
                 [NewHandler([id |-> r2, thread_id |-> <<"t", "2">>]) EXCEPT
                    !.phase = "batch", !.run_id = r2, !.tool_calls = <<c2>>,
                    !.i = 1] >>
    /\ db = {Doc1}
    /\ savepoints = <<>>
    /\ event = NoEvent
    /\ trace = <<>>
    /\ call = NoCall
    /\ resumption = NoResumption
    /\ events = 0
    /\ status = "running"
    /\ cleared = FALSE

\* one of the handlers names the savepoint of its call
NameSavepoint ==
    \E k \in 1..Len(stack) :
        /\ stack[k].phase = "batch"
        /\ stack[k].i = 1
        /\ trace' = Append(trace,
                           Effect("savepoint",
                                  savepoint_name(stack[k].run_id,
                                                 stack[k].tool_calls[1])))
        /\ stack' = [stack EXCEPT ![k] = [@ EXCEPT !.i = 2]]
        /\ UNCHANGED <<scope, allow_write, cleared, db, savepoints, event, call,
                       resumption, events, status>>

NextNames == NameSavepoint

SpecNames == InitNames /\ [][NextNames]_vars

(* ------------------------------ claims -------------------------------- *)

Frames == { stack[k] : k \in 1..Len(stack) }

\* the loop of handle_requires_action has gone through the whole batch
LoopComplete(f) == f.phase = "batch" /\ f.i > Len(f.tool_calls)

OutputIds(outputs) == { outputs[k].tool_call_id : k \in 1..Len(outputs) }

BatchIdSet(ids) == { ids[k] : k \in 1..Len(ids) }

OnePerCall(ids, outputs) ==
    /\ Len(outputs) = Len(ids)
    /\ OutputIds(outputs) = BatchIdSet(ids)
    /\ \A id \in BatchIdSet(ids) :
         Cardinality({ k \in 1..Len(outputs) : outputs[k].tool_call_id = id }) = 1

IsErrorOutput(o) ==
    /\ Len(o) = 5
    /\ o[1] = "json" /\ o[2] = "message" /\ o[3] = ErrorMessage /\ o[4] = "error"

\* C1: when the loop has gone through a batch of N requests whose function
\* names all resolve, and when the outputs are resubmitted, there are exactly N
\* outputs, exactly one per call id of the batch, and the call ids of the
\* outputs are the call ids of the batch, whatever each call did.
C1_OneOutputPerCall ==
    /\ \A f \in Frames : LoopComplete(f) => OnePerCall(f.tool_calls, f.tool_outputs)
    /\ resumption.made => OnePerCall(resumption.tool_calls, resumption.tool_outputs)

C1_Witness ==
    /\ resumption.made
    /\ Len(resumption.tool_calls) >= 2
    /\ \E j, k \in 1..Len(resumption.excs) :
         /\ resumption.excs[j] = "JSONDecodeError"
         /\ resumption.excs[k] = "FunctionError"

\* C2: with writes not permitted, once the error output of a Custom Function
\* that raised has been appended, the persisted rows are those before the call.
C2_RevertedWhenRaising ==
    (/\ ~allow_write
     /\ call.type = "Custom Function"
     /\ call.invoked
     /\ call.exc # "")
    => db = call.db_before

\* C3: a handler of a requires-action event that has returned has made exactly
\* one resumption call.
C3_OneResumptionPerPause ==
    \A f \in Frames : f.returned => f.resumed = 1

\* C4: when a request names a function the registry cannot resolve, the
\* "Function not found" output built for it is in the batch handed over for
\* resubmission: the handler does not return still holding it.
C4_NotFoundOutputYielded ==
    \A f \in Frames :
        f.returned =>
            \A k \in 1..Len(f.tool_outputs) :
                f.tool_outputs[k].output # FunctionNotFound

\* C5: in a batch whose calls fail by malformed arguments or by a raised error
\* or complete, each failing call has exactly one error output {message,
\* error} under its call id, each call that completes has its serialized
\* result and no error payload, every call of the batch has been processed
\* whatever the calls before it did, and the whole batch is resubmitted: only
\* an unresolved function name makes the handler return without resubmission.
C5_Isolated(ids, excs, outputs) ==
    /\ Len(outputs) = Len(ids)
    /\ Len(excs) = Len(ids)
    /\ \A k \in 1..Len(ids) :
         /\ outputs[k].tool_call_id = ids[k]
         /\ excs[k] # "" =>
              /\ IsErrorOutput(outputs[k].output)
              /\ outputs[k].output[5] = excs[k]
         /\ excs[k] = "" =>
              /\ ~IsErrorOutput(outputs[k].output)
              /\ outputs[k].output[1] = "json"
              /\ Len(outputs[k].output) = 2

C5_FailureIsolation ==
    /\ \A f \in Frames :
         /\ LoopComplete(f) => C5_Isolated(f.tool_calls, f.excs, f.tool_outputs)
         /\ (f.returned /\ f.resumed = 0) =>
              /\ f.excs # <<>>
              /\ f.excs[Len(f.excs)] = "FunctionNotFound"
         /\ f.phase = "batch" => Len(f.excs) = f.i - 1
    /\ resumption.made =>
         C5_Isolated(resumption.tool_calls, resumption.excs, resumption.tool_outputs)

C5_Witness ==
    /\ resumption.made
    /\ Len(resumption.tool_calls) >= 2
    /\ resumption.excs[1] # ""
    /\ \A k \in 2..Len(resumption.excs) : resumption.excs[k] = ""

\* C6: with writes not permitted, a Custom Function that returns normally runs
\* between a savepoint named run id, "_", call id and the rollback to that
\* savepoint: the persisted rows after the call are those before it, and the
\* output of the call carries the value the function returned.
C6_RevertedWhenReturning ==
    (/\ ~allow_write
     /\ call.type = "Custom Function"
     /\ call.invoked
     /\ call.exc = "")
    => /\ db = call.db_before
       /\ call.output = <<"json", "ok">>
       /\ Len(trace) = 3
       /\ trace[1].kind = "savepoint"
       /\ trace[1].name = Top.event_run.id \o <<"_">> \o call.id
       /\ trace[2].kind = "invoke"
       /\ trace[3].kind = "rollback"
       /\ trace[3].name = trace[1].name

C6_Witness ==
    /\ ~allow_write
    /\ call.type = "Custom Function"
    /\ call.wrote
    /\ call.exc = ""

IsCustomRow(r) == r[1] = "row"

\* C7: with writes permitted, a Custom Function is called with no savepoint
\* and no rollback, the row it writes is persisted, and no later step removes
\* a row written by a Custom Function.
C7_WritesKept ==
    /\ [](allow_write =>
            /\ savepoints = <<>>
            /\ \A k \in 1..Len(trace) : trace[k].kind \notin {"savepoint", "rollback"}
            /\ (call.type = "Custom Function" /\ call.wrote) => Row(call.id) \in db)
    /\ [][allow_write => \A r \in db : IsCustomRow(r) => r \in db']_vars

C7_Witness ==
    /\ allow_write
    /\ Depth = 1
    /\ Top.returned
    /\ Top.resumed = 1
    /\ \E r \in db : IsCustomRow(r)

\* C8: a resumption call names the run id and the thread id of the run carried
\* by the requires-action event being handled, and so the stream it opens, at
\* any depth, is a stream of the run whose pause triggered it.
C8_ResumptionNamesPausedRun ==
    /\ resumption.made =>
         /\ Depth >= 2
         /\ stack[Depth - 1].event_run # NoRun
         /\ resumption.run_id = stack[Depth - 1].event_run.id
         /\ resumption.thread_id = stack[Depth - 1].event_run.thread_id
    /\ \A k \in 2..Depth : stack[k].run = stack[k - 1].event_run

C8_Witness ==
    /\ resumption.made
    /\ Depth = 3

\* C9: a final text event makes exactly one message delivery to the channel,
\* carrying the text of the event, followed by exactly one clear signal for
\* the channel; no clear signal is published in any other way.
C9_MessageThenClear ==
    /\ event.kind = "text_done" =>
         /\ Len(trace) = 2
         /\ trace[1].kind = "message"
         /\ trace[1].text = <<event.text>>
         /\ trace[1].channel_id = ChannelId
         /\ trace[2].kind = "ai_event_clear"
         /\ trace[2].channel_id = ChannelId
    /\ \A k \in 1..Len(trace) :
         trace[k].kind \in {"message", "ai_event_clear"} => event.kind = "text_done"

C9_Witness ==
    /\ event.kind = "text_done"
    /\ event.text = "Done!"
    /\ Depth = 2

Count(seq, S) == Cardinality({ k \in 1..Len(seq) : seq[k] \in S })

Thinking == <<"Raven AI is thinking...">>

\* C10 as claimed: a completed tool-call step publishes one notification per
\* tool of the step, of whatever type; any other step publishes exactly one
\* thinking notification.
C10_OneNotificationPerTool ==
    event.kind = "step_done" =>
        IF event.step.type = "tool_calls"
        THEN Len(trace) = Len(event.step.tool_calls)
        ELSE Len(trace) = 1 /\ trace[1].text = Thinking

\* C10 as amended: a completed tool-call step publishes "Running code..." once
\* per code-interpreter tool and "Searching file contents..." once per
\* file-search tool, and nothing for a tool of another type; any other step
\* publishes exactly one thinking notification.
C10_NotificationPerKnownTool ==
    event.kind = "step_done" =>
        /\ \A k \in 1..Len(trace) :
             trace[k].kind = "ai_event" /\ trace[k].channel_id = ChannelId
        /\ IF event.step.type = "tool_calls"
           THEN /\ Len(trace) =
                     Count(event.step.tool_calls, {"code_interpreter", "file_search"})
                /\ Cardinality({ k \in 1..Len(trace) :
                                   trace[k].text = <<"Running code...">> })
                     = Count(event.step.tool_calls, {"code_interpreter"})
                /\ Cardinality({ k \in 1..Len(trace) :
                                   trace[k].text = <<"Searching file contents...">> })
                     = Count(event.step.tool_calls, {"file_search"})
           ELSE Len(trace) = 1 /\ trace[1].text = Thinking

C10_Witness ==
    /\ event.kind = "step_done"
    /\ event.step.type = "tool_calls"
    /\ Count(event.step.tool_calls, {"function"}) = 1
    /\ Count(event.step.tool_calls, {"code_interpreter"}) = 1
    /\ Len(trace) = 1

\* C11: an unresolved function name ends the processing of the batch: the
\* request that did not resolve is the last one processed. No function is
\* invoked for it, no checkpoint is established, nothing is published, and the
\* requests after it in the batch get no invocation, no checkpoint, no
\* notification and no output.
C11_NothingAfterUnresolved ==
    /\ \A f \in Frames : \A k \in 1..Len(f.excs) :
         f.excs[k] = "FunctionNotFound" =>
             /\ k = Len(f.excs)
             /\ f.i = k + 1
             /\ f.phase # "batch"
             /\ Len(f.tool_outputs) = k
             /\ \A j \in 1..k : f.tool_outputs[j].tool_call_id = f.tool_calls[j]
    /\ call.exc = "FunctionNotFound" =>
         /\ trace = <<>>
         /\ ~call.invoked
         /\ db = call.db_before
         /\ savepoints = call.sp_before

C11_Witness ==
    /\ call.exc = "FunctionNotFound"
    /\ Depth = 1
    /\ Len(Top.tool_calls) = 2
    /\ Top.excs = <<"FunctionNotFound">>
    /\ Top.returned

NoIdTwice(outputs) ==
    \A j, k \in 1..Len(outputs) :
        j # k => outputs[j].tool_call_id # outputs[k].tool_call_id

\* C12: the outputs submitted by a resumption call carry only call ids of the
\* batch of the pause that triggered it, and no call id is carried by two
\* outputs; the outputs a handler has collected so far have the same two
\* properties at every moment, also when a request of the batch failed or did
\* not resolve.
C12_OutputsWithinBatch ==
    /\ resumption.made =>
         /\ OutputIds(resumption.tool_outputs) \subseteq BatchIdSet(resumption.tool_calls)
         /\ NoIdTwice(resumption.tool_outputs)
    /\ \A f \in Frames :
         /\ OutputIds(f.tool_outputs) \subseteq BatchIdSet(f.tool_calls)
         /\ NoIdTwice(f.tool_outputs)

C12_Witness ==
    /\ resumption.made
    /\ Len(resumption.tool_outputs) = 2
    /\ resumption.excs[1] # ""
    /\ resumption.excs[2] = ""
    /\ IsErrorOutput(resumption.tool_outputs[1].output)

TransportErrors == {"stream_error", "submit_error"}

\* C13: a failure of the transport while the outputs are resubmitted or while
\* a stream is consumed is not turned into a tool output and is not retried:
\* in the same step every enclosing handler is left in the failed state and
\* stream_response fails, no resumption call is made, nothing is published or
\* sent, the rows are untouched; after it nothing happens any more: no
\* resumption call, no message, no clear signal.
C13_TransportFailurePropagates ==
    [][ /\ event'.kind \in TransportErrors =>
             /\ status' = "failed"
             /\ Len(stack') = Len(stack)
             /\ \A k \in 1..Len(stack) :
                  stack'[k] = [stack[k] EXCEPT !.phase = "failed"]
             /\ trace' = <<>>
             /\ resumption' = NoResumption
             /\ db' = db
        /\ status = "failed" => FALSE ]_vars

C13_Witness ==
    /\ event.kind = "stream_error"
    /\ status = "failed"
    /\ Depth = 3
    /\ \A f \in Frames : f.phase = "failed"

\* C14: the resumption is blocking and nested. While a resumption stream is
\* consumed, every enclosing handler is blocked inside the one resumption call
\* it made and has not returned, so the nesting depth is the number of pauses
\* being resumed; an enclosing handler changes only in the step in which the
\* session directly nested in it ends (or when a failure unwinds them all),
\* sessions end one per step, innermost first, and a session is nested only by
\* a resumption call.
C14_BlockingNested ==
    /\ [](\A k \in 1..(Depth - 1) :
            /\ stack[k].phase \in {"blocked", "failed"}
            /\ ~stack[k].returned
            /\ stack[k].resumed = 1)
    /\ [][ /\ \A k \in 1..(Depth - 1) :
               (k <= Len(stack') /\ stack'[k] # stack[k]) =>
                   \/ status' = "failed"
                   \/ /\ k = Depth - 1
                      /\ Len(stack') = k
                      /\ Top.phase = "stream"
                      /\ stack'[k].returned
           /\ Len(stack') < Len(stack) => Len(stack') = Len(stack) - 1
           /\ Len(stack') > Len(stack) =>
                 /\ Len(stack') = Len(stack) + 1
                 /\ resumption'.made ]_vars

C14_Witness ==
    /\ status = "running"
    /\ Depth = 2
    /\ stack[1].phase = "blocked"
    /\ Top.resumed = 1
    /\ Top.returned

\* the checkpoints of the batch of handler f that were established and to
\* which the rows have not been taken back
OpenCheckpoints(f, sp) ==
    { k \in 1..Len(sp) :
        /\ ~sp[k].reverted
        /\ \E j \in 1..Len(f.tool_calls) :
              sp[k].name = savepoint_name(f.run_id, f.tool_calls[j]) }

EstablishedIn(tr) == { k \in 1..Len(tr) : tr[k].kind = "savepoint" }

\* C15 as claimed: the calls of a batch are processed one at a time in the
\* order of the requests: the outputs are in the order of the requests, the
\* processing of a call (checkpoint, invocation, revert, output) is over when
\* the next one begins, and so at most one checkpoint of the session is open
\* at any time.
C15_OneAtATimeInOrder ==
    /\ \A f \in Frames : \A k \in 1..Len(f.tool_outputs) :
         f.tool_outputs[k].tool_call_id = f.tool_calls[k]
    /\ resumption.made =>
         \A k \in 1..Len(resumption.tool_outputs) :
            resumption.tool_outputs[k].tool_call_id = resumption.tool_calls[k]
    /\ call # NoCall =>
         /\ Cardinality(OpenCheckpoints(Top, call.sp_before))
              + Cardinality(EstablishedIn(trace)) <= 1
         /\ Cardinality(OpenCheckpoints(Top, savepoints)) <= 1

DocumentKinds ==
    { "Get Document", "Get Multiple Documents", "Delete Document",
      "Delete Multiple Documents" }

\* C16: a call of one of the four document kinds whose payload parses to a
\* mapping publishes exactly one notification, on the channel and naming the
\* reference doctype, and publishes it before the document operation is
\* invoked, also when the operation then fails; a call whose payload does not
\* parse publishes nothing and invokes nothing.
C16_NotifiedBeforeOperation ==
    call.type \in DocumentKinds =>
        /\ call.args = "map" =>
             /\ { k \in 1..Len(trace) : trace[k].kind = "ai_event" } = {1}
             /\ trace[1].channel_id = ChannelId
             /\ trace[1].text[2] = Doc1[1]
             /\ call.invoked =>
                  { k \in 1..Len(trace) : trace[k].kind = "invoke" } = {2}
        /\ call.exc = "JSONDecodeError" =>
             /\ call.args = ""
             /\ trace = <<>>
             /\ ~call.invoked
             /\ db = call.db_before

C16_Witness ==
    /\ call.type = "Delete Document"
    /\ call.args = "map"
    /\ call.exc = "DoesNotExistError"
    /\ call.invoked
    /\ Len(trace) = 2
    /\ trace[1].kind = "ai_event"

\* C17 as claimed: the name of a checkpoint, run id + "_" + call id, is free of
\* collisions across runs: whatever the run ids and the call ids, two calls
\* of different runs never get the same checkpoint name.
C17_NamesCollisionFree ==
    scope = "names" =>
        \A j, k \in 1..Len(trace) : j # k => trace[j].name # trace[k].name

DeleteKinds == { "Delete Document", "Delete Multiple Documents" }

AllReturned(excs) == \A k \in 1..Len(excs) : excs[k] = ""

\* C18 as claimed: with writes not permitted, a batch in which no call raises
\* leaves the persisted rows as they were before the batch, whatever the kinds
\* of its functions: a delete operation too is run under a checkpoint and
\* reverted.
C18_BatchLeavesRowsUnchanged ==
    /\ \A f \in Frames :
         (~allow_write /\ f.phase = "batch" /\ AllReturned(f.excs))
             => db = f.db_before
    /\ (~allow_write /\ resumption.made /\ AllReturned(resumption.excs))
         => db = resumption.db_before

\* C18 as amended: with writes not permitted, a call that does not raise
\* leaves the persisted rows as they were before the call when its function
\* is a Custom Function or one of the two get operations; a delete operation
\* runs with no checkpoint and no revert, and the rows it deleted stay
\* deleted when the outputs are resubmitted.
C18_OnlyDeletesPersist ==
    /\ (~allow_write /\ call # NoCall /\ call.exc = "") =>
         IF call.type \in DeleteKinds
         THEN /\ db = call.db_before \ {Doc1}
              /\ call.invoked
              /\ savepoints = call.sp_before
              /\ \A k \in 1..Len(trace) :
                   trace[k].kind \notin {"savepoint", "rollback"}
         ELSE db = call.db_before
    /\ (~allow_write /\ resumption.made /\ AllReturned(resumption.excs)) =>
         resumption.db_before \ {Doc1} \subseteq db

C18_Witness ==
    /\ ~allow_write
    /\ resumption.made
    /\ AllReturned(resumption.excs)
    /\ Doc1 \in resumption.db_before
    /\ Doc1 \notin db

Notifications(tr) == { k \in 1..Len(tr) : tr[k].kind = "ai_event" }

====
